---------------------------- MODULE Spec2Model ----------------------------
(***************************************************************************)
(* The epoch loop of pytorch_lightning/loops/epoch_loop.py (class          *)
(* EpochLoop) as a state machine: the loop's fields, the Host trainer's    *)
(* stop signal and running stage, the inner step loop's progress counters  *)
(* and the position of the run in Loop.run.                                *)
(*                                                                         *)
(* An optional integer (None or an int) is a sequence: <<>> is None and    *)
(* <<n>> is the integer n.                                                 *)
(*                                                                         *)
(* The calls a handler makes are recorded in order in trace, each with the *)
(* global step it saw, and the Host values it read in reads. The user code *)
(* that may raise is the on_validation_end hook of a checkpoint callback;  *)
(* its exception leaves the handler that called it and the run             *)
(* (pc = "raised").                                                        *)
(*                                                                         *)
(* Spec is a run of the loop. CheckSpec is one call of                     *)
(* check_checkpoint_callback on its own, with any arguments and callbacks. *)
(***************************************************************************)
EXTENDS Integers, Sequences, FiniteSets, TLC

\* ------------------------------------------------------------------ bounds
\* largest min/max epoch or step bound passed to the constructor
MaxCfg == 2
\* most batches the inner step loop runs in one epoch
MaxBatches == 1
\* most batches the inner step loop runs in one run
MaxTotalBatches == 2
\* most epochs a run of the model goes through (above every epoch bound)
MaxIterations == 3
\* most checkpoint callbacks registered with the Host
MaxCallbacks == 1
\* most calls of on_run_end the Host makes after the run has returned or raised
MaxTeardownCalls == 2
\* most checkpoint callbacks of a checkpoint check looked at on its own
MaxCheckedCallbacks == 2
\* largest global step of a checkpoint check looked at on its own
MaxCheckedStep == 1

\* ------------------------------------------------------- optional integers
None == <<>>

Some(n) == <<n>>

IsSet(x) == x # None

Val(x) == x[1]

\* Python truthiness of an Optional[int]: None and 0 are falsy
Truthy(x) == IsSet(x) /\ Val(x) # 0

OptNat == {None} \cup {Some(n) : n \in 0..MaxCfg}

\* ------------------------------------------------------------------- state
VARIABLES
    init_args,             \* the min_epochs and max_epochs passed to __init__
    min_epochs,            \* EpochLoop.min_epochs (resolved by __init__)
    max_epochs,            \* EpochLoop.max_epochs (resolved by __init__)
    min_steps,             \* TrainingLoop.min_steps
    max_steps,             \* TrainingLoop.max_steps
    current_epoch,         \* EpochLoop.current_epoch
    iteration_count,       \* Loop.iteration_count
    global_step,           \* TrainingLoop.global_step
    total_batch_idx,       \* TrainingLoop.total_batch_idx
    has_trained,           \* trainer.checkpoint_connector.has_trained
    should_stop,           \* trainer.should_stop
    teardown_already_run,  \* EpochLoop._teardown_already_run
    running_stage,         \* trainer._running_stage
    host_mode,             \* trainer.training / trainer.validating
    pc,                    \* position of the run
    calls,                 \* how often each hook or collaborator call was made
    trace,                 \* the calls of the handler that ran last, in order
    reads,                 \* the Host values the handler that ran last read
    last_done,             \* what the last done check saw and returned
    step_before_run_end,   \* global_step when on_run_end was first entered
    teardown_calls,        \* on_run_end calls made by the Host after the run
    run_end_exit,          \* how on_run_end left past its guard: "none",
                           \* "returned" or "raised"
    check_input            \* the arguments and callbacks of a checkpoint check
                           \* looked at on its own

vars == <<init_args, min_epochs, max_epochs, min_steps, max_steps, current_epoch,
          iteration_count, global_step, total_batch_idx, has_trained,
          should_stop, teardown_already_run, running_stage, host_mode, pc,
          calls, trace, reads, last_done, step_before_run_end, teardown_calls,
          run_end_exit, check_input>>

\* what no handler of the run assigns: what __init__ is given and sets for
\* good, and the input of a check looked at on its own
config == <<init_args, min_epochs, max_epochs, min_steps, max_steps, check_input>>

\* the hooks and collaborator calls that are counted over a run
CallNames == {"on_train_start", "on_epoch_start", "on_train_epoch_start",
              "final_checkpoint_check", "on_train_end", "logger_finalize",
              "profiler_describe", "accelerator_on_train_end",
              "running_stage_reset"}

\* the counters c after the calls of the sequence names
Count(c, names) ==
    [n \in CallNames |-> c[n] + Cardinality({i \in 1..Len(names) : names[i] = n})]

\* an event of the trace: the call, the global step it saw and, for a call of
\* a checkpoint callback, the callback's place in the registration order
Event(name, step) == [call |-> name, arg |-> 0, step |-> step]

Events(names, step) == [i \in 1..Len(names) |-> Event(names[i], step)]

\* a checkpoint callback as the loop sees it
Callback == [save_last : BOOLEAN, verbose : BOOLEAN, raises : BOOLEAN]

CallbackLists == UNION {[1..n -> Callback] : n \in 0..MaxCallbacks}

\* ------------------------------------------------------------ construction
DefaultMaxEpochs == 1000

DefaultMinEpochs == 1

\* line 31 looking at max_epochs alone
InitMaxEpochs_IgnoresSteps(maxEpochs, maxSteps) ==
    IF maxEpochs = None THEN Some(DefaultMaxEpochs) ELSE maxEpochs

InitMaxEpochs(maxEpochs, maxSteps) ==
    IF maxEpochs = None /\ maxSteps = None THEN Some(DefaultMaxEpochs) ELSE maxEpochs

InitMinEpochs(minEpochs, minSteps) ==
    IF minEpochs = None /\ minSteps = None THEN Some(DefaultMinEpochs) ELSE minEpochs

\* the Host values that the handlers read and that decide what they call:
\* trainer.reload_dataloaders_every_epoch (line 143), should_check_val,
\* should_skip_eval and trainer.disable_validation (lines 166-168) and
\* whether trainer.logger is there (line 121)
NoReads == [reload |-> FALSE, should_check_val |-> FALSE,
            should_skip_eval |-> FALSE, disable_validation |-> FALSE,
            has_logger |-> FALSE]

NoCheck == [should_update |-> FALSE, is_last |-> FALSE, callbacks |-> <<>>]

NoDone == [checked |-> FALSE, signal |-> FALSE, honored |-> FALSE,
           stop_steps |-> FALSE, stop_epochs |-> FALSE, ret |-> FALSE]

Init ==
    /\ \E minE \in OptNat, maxE \in OptNat, minS \in OptNat, maxS \in OptNat :
          /\ init_args = [min_epochs |-> minE, max_epochs |-> maxE]
          /\ max_epochs = InitMaxEpochs(maxE, maxS)
          /\ min_epochs = InitMinEpochs(minE, minS)
          /\ min_steps = minS
          /\ max_steps = maxS
    /\ current_epoch = 0
    /\ iteration_count = 0
    /\ global_step = 0
    /\ total_batch_idx = 0
    /\ has_trained = FALSE
    /\ should_stop = FALSE
    /\ teardown_already_run = FALSE
    /\ running_stage = "fitting"
    /\ host_mode = "training"
    /\ pc = "run_start"
    /\ calls = [n \in CallNames |-> 0]
    /\ trace = <<>>
    /\ reads = NoReads
    /\ last_done = NoDone
    /\ step_before_run_end = None
    /\ teardown_calls = 0
    /\ run_end_exit = "none"
    /\ check_input = NoCheck

\* -------------------------------------------------------------------- done
\* line 77: stop_steps = self.max_steps and self.max_steps <= self.global_step
StopSteps == Truthy(max_steps) /\ Val(max_steps) <= global_step

\* line 82
MetMinEpochs == IF Truthy(min_epochs) THEN current_epoch >= Val(min_epochs) - 1 ELSE TRUE

\* line 83
MetMinSteps == IF Truthy(min_steps) THEN global_step >= Val(min_steps) ELSE TRUE

\* lines 79-87: the local should_stop
HonoredStop == should_stop /\ MetMinEpochs /\ MetMinSteps

\* line 96 with > for >=
StopEpochs_Strict == IF max_epochs # None THEN current_epoch > Val(max_epochs) ELSE FALSE

\* line 96
StopEpochs == IF max_epochs # None THEN current_epoch >= Val(max_epochs) ELSE FALSE

\* line 97: the truth value of what done returns
DoneValue == StopSteps \/ HonoredStop \/ StopEpochs

\* lines 80-94 without line 94
StopSignalAfterDone_Kept == should_stop

\* lines 80-94 with the signal cleared on every path
StopSignalAfterDone_Cleared == FALSE

\* lines 80-94: trainer.should_stop after the check
StopSignalAfterDone ==
    IF should_stop /\ ~(MetMinEpochs /\ MetMinSteps) THEN FALSE ELSE should_stop

\* the position of the run after a done check: Loop.run leaves its while loop
\* when done is true
AfterDone == IF DoneValue THEN "run_end" ELSE "advance_start"

done ==
    /\ pc = "done"
    /\ should_stop' = StopSignalAfterDone
    /\ last_done' = [checked |-> TRUE, signal |-> should_stop,
                     honored |-> HonoredStop, stop_steps |-> StopSteps,
                     stop_epochs |-> StopEpochs, ret |-> DoneValue]
    /\ pc' = AfterDone
    /\ trace' = <<>>
    /\ reads' = NoReads
    /\ UNCHANGED <<config, current_epoch, iteration_count, global_step,
                   total_batch_idx, has_trained, teardown_already_run,
                   running_stage, host_mode, calls, step_before_run_end,
                   teardown_calls,
                   run_end_exit>>

\* ------------------------------------------------------------ on_run_start
\* on_run_start without line 101
RunStartCalls_None == <<>>

RunStartCalls == <<"on_train_start">>

on_run_start ==
    /\ pc = "run_start"
    /\ trace' = Events(RunStartCalls, global_step)
    /\ reads' = NoReads
    /\ calls' = Count(calls, RunStartCalls)
    /\ pc' = "done"
    /\ UNCHANGED <<config, current_epoch, iteration_count, global_step,
                   total_batch_idx, has_trained, should_stop,
                   teardown_already_run, running_stage, host_mode, last_done,
                   step_before_run_end, teardown_calls,
                   run_end_exit>>

\* -------------------------------------------------------- on_advance_start
\* line 135 without the + 1
NextEpoch_ZeroBased == iteration_count

\* line 135
NextEpoch == iteration_count + 1

\* line 143
ReloadsDataloader(epoch, reload) == epoch # 0 /\ reload

on_advance_start ==
    /\ pc = "advance_start"
    /\ iteration_count < MaxIterations
    /\ \E reload \in BOOLEAN :
          LET epoch == NextEpoch
              evs == (IF ReloadsDataloader(epoch, reload)
                         THEN <<"reset_train_dataloader">> ELSE <<>>)
                     \o <<"sampler.set_epoch",
                          "accumulation_scheduler.on_train_epoch_start",
                          "accumulated_loss_reset",
                          "on_epoch_start", "on_train_epoch_start">>
          IN /\ current_epoch' = epoch
             /\ trace' = Events(evs, global_step)
             /\ reads' = [NoReads EXCEPT !.reload = reload]
             /\ calls' = Count(calls, evs)
    /\ pc' = "advance"
    /\ UNCHANGED <<config, iteration_count, global_step, total_batch_idx,
                   has_trained, should_stop, teardown_already_run,
                   running_stage, host_mode, last_done, step_before_run_end,
                   teardown_calls,
                   run_end_exit>>

\* ----------------------------------------------------------------- advance
\* training_loop.run(): the inner step loop runs some batches, each one
\* optimizer step that raises the global step and the total batch index by
\* one; the Host has trained once a batch has run
BatchesRun == {n \in 0..MaxBatches : total_batch_idx + n <= MaxTotalBatches}

StepAfterBatches(step, n) == step + n

HasTrainedAfter(n) == has_trained \/ n > 0

\* lines 187-193
advance ==
    /\ pc = "advance"
    /\ \E n \in BatchesRun :
          /\ global_step' = StepAfterBatches(global_step, n)
          /\ total_batch_idx' = total_batch_idx + n
          /\ has_trained' = HasTrainedAfter(n)
          /\ trace' = <<Event("training_loop.run", global_step),
                        Event("log_train_epoch_end_metrics", global_step')>>
    /\ reads' = NoReads
    /\ pc' = "advance_end"
    /\ UNCHANGED <<config, current_epoch, iteration_count, should_stop,
                   teardown_already_run, running_stage, host_mode, calls,
                   last_done, step_before_run_end, teardown_calls,
                   run_end_exit>>

\* ------------------------------------------------ check_checkpoint_callback
\* the first callback whose on_validation_end raises, 0 when none does
FirstRaising(cbs) ==
    IF \E i \in 1..Len(cbs) : cbs[i].raises
       THEN CHOOSE i \in 1..Len(cbs) :
               /\ cbs[i].raises
               /\ \A j \in 1..(i - 1) : ~cbs[j].raises
       ELSE 0

\* line 200 with save_last and verbose looked for apart
AnnouncesLast_AnyOfEach(is_last, cbs) ==
    /\ is_last
    /\ \E i \in 1..Len(cbs) : cbs[i].save_last
    /\ \E i \in 1..Len(cbs) : cbs[i].verbose

\* line 200
AnnouncesLast(is_last, cbs) ==
    is_last /\ \E i \in 1..Len(cbs) : cbs[i].save_last /\ cbs[i].verbose

\* what one check does with the callbacks cbs at global step `step`: the
\* events it makes, and whether a callback's exception leaves it
check_checkpoint_callback(should_update, is_last, cbs, step) ==
    IF should_update /\ has_trained
       THEN LET first == FirstRaising(cbs)
                invoked == IF first = 0 THEN Len(cbs) ELSE first
            IN [events |->
                   (IF AnnouncesLast(is_last, cbs)
                       THEN <<Event("Saving latest checkpoint...", step)>>
                       ELSE <<>>)
                   \o [i \in 1..invoked |->
                          [call |-> "cb.on_validation_end", arg |-> i, step |-> step]],
                raised |-> first # 0]
       ELSE [events |-> <<>>, raised |-> FALSE]

\* the callbacks the Host has registered when a check reads them: a check
\* that is a no-op reads none, and a check with is_last false reads neither
\* save_last nor verbose (line 200), which are left false there
RegisteredCallbacks(should_update, is_last) ==
    IF should_update /\ has_trained
       THEN IF is_last
               THEN CallbackLists
               ELSE {cbs \in CallbackLists :
                        \A i \in 1..Len(cbs) : ~cbs[i].save_last /\ ~cbs[i].verbose}
       ELSE {<<>>}

\* one checkpoint check on its own: any arguments, any callbacks, trained or
\* not, in a loop that is otherwise as __init__ left it
CheckedCallbackLists == UNION {[1..n -> Callback] : n \in 0..MaxCheckedCallbacks}

CheckInit ==
    /\ init_args = [min_epochs |-> None, max_epochs |-> None]
    /\ max_epochs = InitMaxEpochs(None, None)
    /\ min_epochs = InitMinEpochs(None, None)
    /\ min_steps = None
    /\ max_steps = None
    /\ current_epoch = 0
    /\ iteration_count = 0
    /\ global_step \in 0..MaxCheckedStep
    /\ total_batch_idx = 0
    /\ has_trained \in BOOLEAN
    /\ should_stop = FALSE
    /\ teardown_already_run = FALSE
    /\ running_stage = "fitting"
    /\ host_mode = "training"
    /\ pc = "check"
    /\ calls = [n \in CallNames |-> 0]
    /\ trace = <<>>
    /\ reads = NoReads
    /\ last_done = NoDone
    /\ step_before_run_end = None
    /\ teardown_calls = 0
    /\ run_end_exit = "none"
    /\ check_input \in [should_update : BOOLEAN, is_last : BOOLEAN,
                         callbacks : CheckedCallbackLists]

\* lines 195-206, called once with check_input
call_check_checkpoint_callback ==
    /\ pc = "check"
    /\ LET ck == check_checkpoint_callback(check_input.should_update,
                                           check_input.is_last,
                                           check_input.callbacks, global_step)
       IN /\ trace' = ck.events
          /\ pc' = IF ck.raised THEN "check_raised" ELSE "check_returned"
    /\ UNCHANGED <<config, current_epoch, iteration_count, global_step,
                   total_batch_idx, has_trained, should_stop, teardown_already_run,
                   running_stage, host_mode, calls, last_done, step_before_run_end,
                   teardown_calls, run_end_exit, reads>>

CheckNext == call_check_checkpoint_callback

CheckSpec == CheckInit /\ [][CheckNext]_vars

\* ---------------------------------------------------------- on_advance_end
\* line 168
ShouldTrainOnly(disable_validation, should_skip_eval) ==
    disable_validation \/ should_skip_eval

\* line 171 as its comment of line 170 has it
UpdatesLearningRates_NoValOnly(should_check_val, should_train_only) ==
    ~should_check_val

\* line 171
UpdatesLearningRates(should_check_val, should_train_only) ==
    ~should_check_val \/ should_train_only

\* lines 177-179, without line 180
EvaluationCalls_NoRestore(should_check_val) ==
    IF should_check_val
       THEN <<"trainer.validating=True", "_run_evaluation">>
       ELSE <<>>

\* lines 177-180
EvaluationCalls(should_check_val) ==
    IF should_check_val
       THEN <<"trainer.validating=True", "_run_evaluation", "trainer.training=True">>
       ELSE <<>>

\* lines 178 and 180: the Host's mode after the calls `names`, the last of
\* the two setters among them deciding
HostModeAfter(mode, names) ==
    LET setters == {i \in 1..Len(names) :
                       names[i] \in {"trainer.validating=True", "trainer.training=True"}}
    IN IF setters = {}
          THEN mode
          ELSE LET last == CHOOSE i \in setters : \A j \in setters : j <= i
               IN IF names[last] = "trainer.validating=True"
                     THEN "validating" ELSE "training"

\* line 185: increment_accumulated_grad_global_step
IncrementedStep(step) == step + 1

on_advance_end ==
    /\ pc = "advance_end"
    /\ \E should_check_val \in BOOLEAN, should_skip_eval \in BOOLEAN,
          disable_validation \in BOOLEAN :
        LET should_train_only == ShouldTrainOnly(disable_validation, should_skip_eval)
            lr == IF UpdatesLearningRates(should_check_val, should_train_only)
                     THEN <<"update_learning_rates">> ELSE <<>>
        IN /\ reads' = [NoReads EXCEPT !.should_check_val = should_check_val,
                                       !.should_skip_eval = should_skip_eval,
                                       !.disable_validation = disable_validation]
           /\ \E cbs \in RegisteredCallbacks(should_train_only, FALSE) :
               LET ck == check_checkpoint_callback(should_train_only, FALSE, cbs,
                                                   global_step)
                   before == Events(lr \o (IF should_train_only
                                              THEN <<"check_checkpoint_callback">>
                                              ELSE <<>>), global_step)
                             \o ck.events
               IN IF ck.raised
                     THEN /\ trace' = before
                          /\ pc' = "raised"
                          /\ UNCHANGED <<global_step, host_mode>>
                     ELSE /\ trace' = before
                                      \o Events(EvaluationCalls(should_check_val)
                                                \o <<"increment_accumulated_grad_global_step">>,
                                                global_step)
                          /\ host_mode' = HostModeAfter(host_mode,
                                                        EvaluationCalls(should_check_val))
                          /\ global_step' = IncrementedStep(global_step)
                          /\ pc' = "loop_back"
    /\ UNCHANGED <<config, current_epoch, iteration_count, total_batch_idx,
                   has_trained, should_stop, teardown_already_run,
                   running_stage, calls, last_done, step_before_run_end,
                   teardown_calls,
                   run_end_exit>>

\* Loop.run: the iteration counter is raised after on_advance_end, and done
\* is checked again
loop_back ==
    /\ pc = "loop_back"
    /\ iteration_count' = iteration_count + 1
    /\ pc' = "done"
    /\ UNCHANGED <<config, current_epoch, global_step, total_batch_idx,
                   has_trained, should_stop, teardown_already_run,
                   running_stage, host_mode, calls, trace, reads, last_done,
                   step_before_run_end, teardown_calls,
                   run_end_exit>>

\* -------------------------------------------------------------- on_run_end
\* line 110
DecrementedStep(step) == step - 1

\* on_run_end without line 113
RestoredStep_Missing(step) == step

\* line 113
RestoredStep(step) == step + 1

\* lines 116-131 with the profiler's summary ahead of the on_train_end hook
TeardownCalls_ProfilerFirst(has_logger) ==
    <<"profiler_describe", "on_train_end">>
    \o (IF has_logger THEN <<"logger_finalize">> ELSE <<>>)
    \o <<"accelerator_on_train_end", "running_stage_reset">>

\* lines 116-131: what on_run_end calls after the final checkpoint check
TeardownCalls(has_logger) ==
    <<"on_train_end">>
    \o (IF has_logger THEN <<"logger_finalize">> ELSE <<>>)
    \o <<"profiler_describe", "accelerator_on_train_end", "running_stage_reset">>

\* on_run_end without lines 104-105
TeardownGuard_Missing == FALSE

\* line 104: the guard of on_run_end
TeardownGuard == teardown_already_run

\* lines 103-110: the guard, the flag and the decrement of the global step
on_run_end ==
    /\ pc = "run_end"
    /\ trace' = <<>>
    /\ reads' = NoReads
    /\ IF TeardownGuard
          THEN /\ pc' = "finished"
               /\ UNCHANGED <<teardown_already_run, global_step, step_before_run_end>>
          ELSE /\ teardown_already_run' = TRUE
               /\ step_before_run_end' = Some(global_step)
               /\ global_step' = DecrementedStep(global_step)
               /\ pc' = "run_end_checkpoint"
    /\ UNCHANGED <<config, current_epoch, iteration_count, total_batch_idx,
                   has_trained, should_stop, running_stage, host_mode, calls,
                   last_done, teardown_calls,
                   run_end_exit>>

\* lines 112-131: the final checkpoint check, the restored global step and
\* the end-of-training calls; an exception of a checkpoint callback leaves
\* on_run_end at line 112
on_run_end_checkpoint ==
    /\ pc = "run_end_checkpoint"
    /\ \E cbs \in RegisteredCallbacks(TRUE, TRUE), has_logger \in BOOLEAN :
        LET ck == check_checkpoint_callback(TRUE, TRUE, cbs, global_step)
        IN IF ck.raised
              THEN /\ trace' = <<Event("final_checkpoint_check", global_step)>> \o ck.events
                   /\ calls' = Count(calls, <<"final_checkpoint_check">>)
                   /\ pc' = "raised"
                   /\ run_end_exit' = "raised"
                   /\ reads' = NoReads
                   /\ UNCHANGED <<global_step, running_stage>>
              ELSE /\ global_step' = RestoredStep(global_step)
                   /\ trace' = <<Event("final_checkpoint_check", global_step)>>
                               \o ck.events
                               \o Events(TeardownCalls(has_logger), global_step')
                   /\ calls' = Count(calls, <<"final_checkpoint_check">>
                                            \o TeardownCalls(has_logger))
                   /\ running_stage' = "None"
                   /\ pc' = "finished"
                   /\ run_end_exit' = "returned"
                   /\ reads' = [NoReads EXCEPT !.has_logger = has_logger]
    /\ UNCHANGED <<config, current_epoch, iteration_count, total_batch_idx,
                   has_trained, should_stop, teardown_already_run, host_mode,
                   last_done, step_before_run_end, teardown_calls>>

\* ---------------------------------------------------------------- the Host
\* the Host calls on_run_end again after the run has returned or raised
host_on_run_end ==
    /\ pc \in {"finished", "raised"}
    /\ teardown_calls < MaxTeardownCalls
    /\ teardown_calls' = teardown_calls + 1
    /\ pc' = "run_end"
    /\ UNCHANGED <<config, current_epoch, iteration_count, global_step,
                   total_batch_idx, has_trained, should_stop,
                   teardown_already_run, running_stage, host_mode, calls,
                   trace, reads, last_done, step_before_run_end,
                   run_end_exit>>

\* a collaborator (an early-stopping callback) sets the stop signal in one of
\* the hooks and callbacks of the run: after a handler of the run has started
\* and before the run has returned
set_should_stop ==
    /\ pc \notin {"run_start", "finished", "raised"}
    /\ ~should_stop
    /\ should_stop' = TRUE
    /\ UNCHANGED <<config, current_epoch, iteration_count, global_step,
                   total_batch_idx, has_trained, teardown_already_run,
                   running_stage, host_mode, pc, calls, trace, reads, last_done,
                   step_before_run_end, teardown_calls,
                   run_end_exit>>

\* ------------------------------------------------------- the specification
Next ==
    \/ on_run_start
    \/ done
    \/ on_advance_start
    \/ advance
    \/ on_advance_end
    \/ loop_back
    \/ on_run_end
    \/ on_run_end_checkpoint
    \/ host_on_run_end
    \/ set_should_stop

Spec == Init /\ [][Next]_vars

\* ------------------------------------------------------------------ claims
\* the run has just left its loop because done honored the stop signal, with
\* neither the maxSteps nor the maxEpochs bound reached
EndedByStopSignal ==
    /\ pc = "run_end"
    /\ teardown_calls = 0
    /\ last_done.ret
    /\ last_done.honored
    /\ ~last_done.stop_steps
    /\ ~last_done.stop_epochs

\* C1: a run that ends because done honored the stop signal has completed at
\* least minEpochs epochs (when minEpochs is set) and has globalStep >= minSteps
\* (when minSteps is set).
C1_MinimumDurationKept ==
    EndedByStopSignal =>
        /\ IsSet(min_epochs) => iteration_count >= Val(min_epochs)
        /\ IsSet(min_steps) => global_step >= Val(min_steps)

\* C2: the loop terminates for every combination of bounds, every epoch raising
\* currentEpoch by one and globalStep by at least one. Stated on finite runs
\* through the loop's variant: a done check returns false, and the loop runs
\* another epoch, only while some bound is set and every bound that is set is
\* still ahead of its counter; without that no later check can return true
\* unless a stop is requested.
C2_LoopTerminates ==
    (pc = "advance_start" /\ last_done.checked) =>
        /\ ~last_done.ret
        /\ IsSet(max_epochs) \/ IsSet(max_steps)
        /\ IsSet(max_epochs) => current_epoch < Val(max_epochs)
        /\ IsSet(max_steps) => global_step < Val(max_steps)

\* C3: when maxEpochs is set, currentEpoch <= maxEpochs in every reachable state.
C3_EpochWithinMax == IsSet(max_epochs) => current_epoch <= Val(max_epochs)

\* an epoch bound was reached by running epochs, the stop signal having been
\* raised on the way
C3_Witness ==
    /\ IsSet(max_epochs)
    /\ current_epoch = Val(max_epochs)
    /\ current_epoch >= 2
    /\ last_done.stop_epochs
    /\ last_done.signal
    /\ pc = "finished"

\* the value of done as the claim C4 states it
ClaimedStopSteps == IsSet(max_steps) /\ Val(max_steps) <= global_step

ClaimedHonoredStop ==
    /\ should_stop
    /\ ~IsSet(min_epochs) \/ current_epoch >= Val(min_epochs) - 1
    /\ ~IsSet(min_steps) \/ global_step >= Val(min_steps)

ClaimedStopEpochs == IsSet(max_epochs) /\ current_epoch >= Val(max_epochs)

\* C4: at every done check the value done returns is stopBySteps OR honoredStop OR
\* stopByEpochs, with stopBySteps = (maxSteps is not None and maxSteps <=
\* globalStep); so done is true whenever maxSteps is set and reached.
C4_DoneValue ==
    pc = "done" =>
        /\ DoneValue <=> (ClaimedStopSteps \/ ClaimedHonoredStop \/ ClaimedStopEpochs)
        /\ ClaimedStopSteps => DoneValue

\* a floor is not met, in the words of the claim C5
FloorUnmet ==
    \/ IsSet(min_epochs) /\ current_epoch < Val(min_epochs) - 1
    \/ IsSet(min_steps) /\ global_step < Val(min_steps)

\* no floor lies above the bound of the same counter
ConsistentBounds ==
    /\ (IsSet(min_epochs) /\ IsSet(max_epochs)) => Val(min_epochs) <= Val(max_epochs)
    /\ (IsSet(min_steps) /\ IsSet(max_steps)) => Val(min_steps) <= Val(max_steps)

C6_HonoredSignalCleared == last_done.honored => ~should_stop

\* C6 as amended: a done check that honors the stop signal leaves it set; the
\* Host's stop signal is still true after that check and after the run has
\* ended (the loop clears it only in a check that finds a floor unmet).
C6_HonoredSignalStaysSet == last_done.honored => should_stop

C6_Witness ==
    /\ last_done.honored
    /\ should_stop
    /\ pc = "finished"
    /\ run_end_exit = "returned"

\* the calls on_run_end makes past its guard
RunEndCalls == {"final_checkpoint_check", "on_train_end", "logger_finalize",
                "profiler_describe", "accelerator_on_train_end",
                "running_stage_reset"}

\* on_run_end has been invoked and has exited
RunEndExited == teardown_already_run /\ pc \in {"finished", "raised"}

\* C7 as stated: however often on_run_end is invoked, each of its side effects
\* is performed exactly once.
C7_SideEffectsExactlyOnce ==
    RunEndExited => \A n \in RunEndCalls : calls[n] = 1

\* C7 as amended: however often on_run_end is invoked, each of its side
\* effects is performed at most once; once the first invocation has returned
\* normally each has been performed exactly once, except the logger finalize,
\* which is performed only if a logger is configured; when a checkpoint
\* callback raises in the first invocation, the final checkpoint check is the
\* only one performed. The teardown flag goes from false to true once and
\* never back, and every invocation after the first changes nothing.
C7_SideEffectsAtMostOnce ==
    /\ [](\A n \in RunEndCalls : calls[n] <= 1)
    /\ [](run_end_exit = "returned"
            => \A n \in RunEndCalls \ {"logger_finalize"} : calls[n] = 1)
    /\ [](run_end_exit = "raised"
            => \A n \in RunEndCalls :
                  calls[n] = IF n = "final_checkpoint_check" THEN 1 ELSE 0)
    /\ [](teardown_already_run <=> run_end_exit # "none" \/ pc = "run_end_checkpoint")
    /\ [][teardown_already_run => teardown_already_run']_vars
    /\ [][(on_run_end /\ teardown_already_run)
            => UNCHANGED <<config, current_epoch, iteration_count, global_step,
                           total_batch_idx, has_trained, should_stop,
                           teardown_already_run, running_stage, host_mode,
                           calls, last_done, step_before_run_end,
                           run_end_exit>>]_vars

\* on_run_end has been invoked three times, the first having returned normally
C7_Witness ==
    /\ teardown_calls = 2
    /\ pc = "finished"
    /\ run_end_exit = "returned"
    /\ last_done.ret
    /\ \A n \in RunEndCalls : calls[n] = 1

\* C8: when on_run_end completes normally, globalStep is what it was just
\* before on_run_end was called.
C8_StepKeptByRunEnd ==
    run_end_exit = "returned" => global_step = Val(step_before_run_end)

\* on_run_end has returned after a final check that invoked a callback
C8_Witness ==
    /\ run_end_exit = "returned"
    /\ pc = "finished"
    /\ teardown_calls = 0
    /\ global_step >= 2
    /\ \E i \in 1..Len(trace) : trace[i].call = "cb.on_validation_end"

\* C9: when a checkpoint callback raises in the final checkpoint check,
\* globalStep is back at its value from before on_run_end once on_run_end has
\* exited, and stays so after further on_run_end calls.
C9_StepRestoredOnError ==
    run_end_exit = "raised" => global_step = Val(step_before_run_end)

\* C10: on_train_start is fired exactly once per run, before the first done
\* check and before any epoch-start hook, also when the first done check
\* returns true; on_run_start changes no loop state.
C10_TrainStartOnce ==
    /\ [](pc = "run_start"
            => /\ calls["on_train_start"] = 0
               /\ ~last_done.checked
               /\ calls["on_epoch_start"] = 0
               /\ calls["on_train_epoch_start"] = 0)
    /\ [](pc # "run_start" => calls["on_train_start"] = 1)
    /\ [][on_run_start
            => /\ calls'["on_train_start"] = calls["on_train_start"] + 1
               /\ UNCHANGED <<current_epoch, global_step, should_stop,
                              teardown_already_run>>]_vars

\* a run without an epoch: the first done check returned true
C10_Witness ==
    /\ pc = "finished"
    /\ iteration_count = 0
    /\ current_epoch = 0
    /\ last_done.ret
    /\ calls["on_train_start"] = 1
    /\ calls["on_epoch_start"] = 0
    /\ calls["on_train_end"] = 1

\* C11: __init__ resolves max_epochs to 1000 exactly when max_epochs and
\* max_steps are both unset and min_epochs to 1 exactly when min_epochs and
\* min_steps are both unset, and keeps the value passed in otherwise;
\* current_epoch starts at 0 and the teardown flag at false.
C11_DefaultBounds ==
    /\ max_epochs = IF init_args.max_epochs = None /\ max_steps = None
                       THEN Some(1000) ELSE init_args.max_epochs
    /\ min_epochs = IF init_args.min_epochs = None /\ min_steps = None
                       THEN Some(1) ELSE init_args.min_epochs
    /\ max_epochs = Some(1000) <=> (init_args.max_epochs = None /\ max_steps = None)
    /\ pc = "run_start" => (current_epoch = 0 /\ ~teardown_already_run)

\* a loop built with no bound at all, and one built with step bounds alone
C11_Witness ==
    /\ pc = "run_start"
    /\ init_args.max_epochs = None
    /\ init_args.min_epochs = None
    /\ \/ max_steps = None /\ min_steps = None
          /\ max_epochs = Some(1000) /\ min_epochs = Some(1)
       \/ max_steps = Some(2) /\ min_steps = Some(1)
          /\ max_epochs = None /\ min_epochs = None

IsCallbackEvent(e) == e.call = "cb.on_validation_end"

IsLastMessage(e) == e.call = "Saving latest checkpoint..."

\* the places in the registration order of the callbacks whose
\* on_validation_end the events evs invoke, in the order of the invocations
InvokedCallbacks(evs) ==
    LET hooks == SelectSeq(evs, IsCallbackEvent)
    IN [i \in 1..Len(hooks) |-> hooks[i].arg]

CheckIsNoOp == ~check_input.should_update \/ ~has_trained

CheckDone == pc \in {"check_returned", "check_raised"}

\* with is_last true and the check not a no-op, the message is there once
\* when a callback has save_last and verbose both, and not at all otherwise
MessageOncePerCheck ==
    (CheckDone /\ ~CheckIsNoOp /\ check_input.is_last) =>
        Len(SelectSeq(trace, IsLastMessage)) =
            IF \E i \in 1..Len(check_input.callbacks) :
                  check_input.callbacks[i].save_last /\ check_input.callbacks[i].verbose
               THEN 1 ELSE 0

NoOpCheckDoesNothing ==
    (CheckDone /\ CheckIsNoOp) => (trace = <<>> /\ pc = "check_returned")

\* C12 as stated: a check that is not a no-op invokes on_validation_end of
\* every registered callback exactly once in registration order, and with
\* is_last true gives the "Saving latest checkpoint..." message once when a
\* callback has save_last and verbose, not at all otherwise; a check with
\* should_update false or without training is a no-op.
C12_EveryCallbackInvoked ==
    /\ MessageOncePerCheck
    /\ NoOpCheckDoesNothing
    /\ (CheckDone /\ ~CheckIsNoOp) =>
          InvokedCallbacks(trace) = [i \in 1..Len(check_input.callbacks) |-> i]

\* C12: as above, but the callbacks are invoked once each in registration
\* order up to and including the first whose on_validation_end raises (all of
\* them when none raises), and the check returns exactly when none raised.
C12_CallbacksUpToFirstRaise ==
    /\ MessageOncePerCheck
    /\ NoOpCheckDoesNothing
    /\ (CheckDone /\ ~CheckIsNoOp) =>
          LET cbs == check_input.callbacks
              raising == {i \in 1..Len(cbs) : cbs[i].raises}
              last == IF raising = {} THEN Len(cbs)
                      ELSE CHOOSE i \in raising : \A j \in raising : i <= j
          IN /\ InvokedCallbacks(trace) = [i \in 1..last |-> i]
             /\ pc = "check_returned" <=> raising = {}

\* a final check of two callbacks that both ask for the message, the first of
\* which raises
C12_Witness ==
    /\ pc = "check_raised"
    /\ has_trained /\ check_input.should_update /\ check_input.is_last
    /\ Len(check_input.callbacks) = 2
    /\ \A i \in 1..2 : check_input.callbacks[i].save_last /\ check_input.callbacks[i].verbose
    /\ check_input.callbacks[1].raises
    /\ Len(SelectSeq(trace, IsLastMessage)) = 1
    /\ InvokedCallbacks(trace) = <<1>>

\* C13: global_step is non-negative in every reachable state, the states
\* inside on_run_end while the final checkpoint check runs included, also in
\* a run without iterations that reaches on_run_end with global_step 0.
C13_StepNonNegative == global_step >= 0

\* a call of a hook or callback of a collaborator, as opposed to the loop's
\* own check and its log message
IsCollaboratorCall(e) ==
    e.call \notin {"final_checkpoint_check", "Saving latest checkpoint..."}

\* C14 as stated: no hook or callback of a collaborator is invoked while
\* global_step holds the value on_run_end decremented it to: every one that
\* on_run_end invokes sees the global step on_run_end was entered with.
C14_NoCallWhileDecremented ==
    RunEndExited =>
        \A i \in 1..Len(trace) :
            IsCollaboratorCall(trace[i]) => trace[i].step = Val(step_before_run_end)

\* C14: the on_validation_end hooks of the checkpoint callbacks, called by
\* the final checkpoint check, are the only hooks or callbacks invoked while
\* global_step is decremented, and they see it one lower; every other hook or
\* call of on_run_end comes after the step is restored and sees the value
\* on_run_end was entered with.
C14_OnlyCheckpointCallbacksSeeDecrement ==
    RunEndExited =>
        \A i \in 1..Len(trace) :
            IsCollaboratorCall(trace[i]) =>
                trace[i].step = IF IsCallbackEvent(trace[i])
                                   THEN Val(step_before_run_end) - 1
                                   ELSE Val(step_before_run_end)

\* an on_run_end that called a checkpoint callback and then on_train_end
C14_Witness ==
    /\ run_end_exit = "returned"
    /\ \E i \in 1..Len(trace), j \in 1..Len(trace) :
          /\ i < j
          /\ trace[i].call = "cb.on_validation_end"
          /\ trace[i].step = Val(step_before_run_end) - 1
          /\ trace[j].call = "on_train_end"
          /\ trace[j].step = Val(step_before_run_end)

IsReset(e) == e.call = "reset_train_dataloader"

\* C15: after every on_advance_start, the handler has asked for a reset of
\* the train dataloader once when reload_dataloaders_every_epoch is set and
\* the epoch is not the first of the run (iteration_count > 0), and not at
\* all in the first on_advance_start of a run or when the flag is unset.
C15_ReloadSkipsFirstEpoch ==
    pc = "advance" =>
        Len(SelectSeq(trace, IsReset)) =
            IF reads.reload /\ iteration_count > 0 THEN 1 ELSE 0

\* C16: current_epoch never decreases; each on_advance_start raises it by
\* exactly one and no other step changes it; at every done check it equals
\* iteration_count, the number of epochs completed so far.
C16_EpochCountsIterations ==
    /\ [](pc = "done" => current_epoch = iteration_count)
    /\ [][current_epoch' >= current_epoch]_vars
    /\ [][(pc = "advance_start" /\ pc' = "advance")
             => current_epoch' = current_epoch + 1]_vars
    /\ [][current_epoch' # current_epoch
             => (pc = "advance_start" /\ pc' = "advance")]_vars

\* the done check after two epochs
C16_Witness ==
    /\ pc = "done"
    /\ iteration_count = 2
    /\ current_epoch = 2

\* the four things on_advance_end may do, the evaluation pass standing for
\* the mode changes around it
IsAdvanceEndStep(e) ==
    e.call \in {"update_learning_rates", "check_checkpoint_callback",
                "_run_evaluation", "increment_accumulated_grad_global_step"}

AdvanceEndSteps ==
    LET steps == SelectSeq(trace, IsAdvanceEndStep)
    IN [i \in 1..Len(steps) |-> steps[i].call]

ReadShouldTrainOnly == reads.disable_validation \/ reads.should_skip_eval

\* what the claim has on_advance_end do up to the checkpoint check
ClaimedUpToCheck ==
    (IF ~reads.should_check_val \/ ReadShouldTrainOnly
        THEN <<"update_learning_rates">> ELSE <<>>)
    \o (IF ReadShouldTrainOnly THEN <<"check_checkpoint_callback">> ELSE <<>>)

\* and in all
ClaimedAdvanceEndSteps ==
    ClaimedUpToCheck
    \o (IF reads.should_check_val THEN <<"_run_evaluation">> ELSE <<>>)
    \o <<"increment_accumulated_grad_global_step">>

AdvanceEndReturned == pc = "loop_back"

\* a checkpoint callback's exception has left on_advance_end, and nothing has
\* run since
AdvanceEndRaised == pc = "raised" /\ ~teardown_already_run

\* C17 as stated: for every should_check_val, disable_validation and
\* should_skip_eval, one on_advance_end does the epoch learning-rate update
\* iff (not should_check_val or should_train_only), the non-final checkpoint
\* check iff should_train_only, the evaluation pass iff should_check_val, in
\* this order, and then, as its last action, one call that advances the
\* accumulated-gradient global step.
C17_AdvanceEndSteps ==
    (AdvanceEndReturned \/ AdvanceEndRaised) =>
        /\ AdvanceEndSteps = ClaimedAdvanceEndSteps
        /\ trace[Len(trace)].call = "increment_accumulated_grad_global_step"

\* C17: an on_advance_end that returns does exactly that; one that a
\* checkpoint callback's exception leaves has done the learning-rate update
\* and the checkpoint check up to that callback, and neither the evaluation
\* pass nor the advance of the global step.
C17_AdvanceEndStepsOnReturn ==
    /\ AdvanceEndReturned =>
          /\ AdvanceEndSteps = ClaimedAdvanceEndSteps
          /\ trace[Len(trace)].call = "increment_accumulated_grad_global_step"
    /\ AdvanceEndRaised =>
          /\ ReadShouldTrainOnly
          /\ AdvanceEndSteps = ClaimedUpToCheck
          /\ trace[Len(trace)].call = "cb.on_validation_end"

\* an on_advance_end that did all four: validation is due and disabled
C17_Witness ==
    /\ AdvanceEndReturned
    /\ reads.should_check_val /\ reads.disable_validation
    /\ AdvanceEndSteps = <<"update_learning_rates", "check_checkpoint_callback",
                           "_run_evaluation",
                           "increment_accumulated_grad_global_step">>
    /\ \E i \in 1..Len(trace) : IsCallbackEvent(trace[i])

\* C18: no on_advance_end both calls the epoch-interval learning-rate
\* update and runs the evaluation pass, whatever should_check_val,
\* disable_validation and should_skip_eval are.
C18_UpdateOrEvaluation ==
    (AdvanceEndReturned \/ AdvanceEndRaised) =>
        ~ /\ \E i \in 1..Len(trace) : trace[i].call = "update_learning_rates"
          /\ \E i \in 1..Len(trace) : trace[i].call = "_run_evaluation"

IsRunEndStep(e) == e.call \in RunEndCalls

\* the steps of the on_run_end whose trace this is, in the order it took them
RunEndSteps ==
    LET steps == SelectSeq(trace, IsRunEndStep)
    IN [i \in 1..Len(steps) |-> steps[i].call]

ClaimedRunEndSteps ==
    <<"final_checkpoint_check", "on_train_end">>
    \o (IF reads.has_logger THEN <<"logger_finalize">> ELSE <<>>)
    \o <<"profiler_describe", "accelerator_on_train_end", "running_stage_reset">>

EpochHooks == {"on_epoch_start", "on_train_epoch_start"}

\* C20: the first on_run_end of a run takes its steps in the order final
\* checkpoint check, on_train_end hook, logger finalize (only with a logger),
\* profiler describe, accelerator on_train_end, reset of the running stage,
\* all of them when it returns; over a run on_train_end comes after
\* on_train_start and after every epoch-start hook; and in each epoch
\* on_epoch_start comes before on_train_epoch_start.
C20_HookOrder ==
    /\ [](RunEndSteps # <<>> =>
             /\ Len(RunEndSteps) <= Len(ClaimedRunEndSteps)
             /\ RunEndSteps = SubSeq(ClaimedRunEndSteps, 1, Len(RunEndSteps))
             /\ run_end_exit = "returned" =>
                   /\ RunEndSteps = ClaimedRunEndSteps
                   /\ running_stage = "None")
    /\ [](calls["on_train_end"] > 0 => calls["on_train_start"] > 0)
    /\ [][calls["on_train_end"] > 0 =>
             \A h \in EpochHooks \cup {"on_train_start"} : calls'[h] = calls[h]]_vars
    /\ [](pc = "advance" =>
             \E i \in 1..Len(trace), j \in 1..Len(trace) :
                /\ i < j
                /\ trace[i].call = "on_epoch_start"
                /\ trace[j].call = "on_train_epoch_start"
                /\ \A k \in 1..Len(trace) :
                      /\ trace[k].call = "on_epoch_start" => k = i
                      /\ trace[k].call = "on_train_epoch_start" => k = j)

\* an on_run_end with a logger, after an epoch, whose final check announced
\* the last checkpoint
C20_Witness ==
    /\ run_end_exit = "returned"
    /\ reads.has_logger
    /\ calls["on_epoch_start"] >= 1
    /\ RunEndSteps = <<"final_checkpoint_check", "on_train_end", "logger_finalize",
                       "profiler_describe", "accelerator_on_train_end",
                       "running_stage_reset">>
    /\ \E i \in 1..Len(trace) : IsLastMessage(trace[i])

=============================================================================
